---------------------------- MODULE Spec2Model ----------------------------
(***************************************************************************)
(* The PBFT message log (src/src/message_log.rs, struct PbftLog): the      *)
(* message store with its admission window, the prepared / committable     *)
(* quorum predicates, checkpoints with garbage collection, and the two     *)
(* backlog queues.                                                         *)
(***************************************************************************)
EXTENDS Integers, Sequences, FiniteSets, TLC

(***************************************************************************)
(* Bounds of the model.                                                    *)
(***************************************************************************)

\* u64 arithmetic is modelled at a reduced width: values are 0 .. Modulus-1
\* and "+" wraps modulo Modulus (the source's modulus is 2^64).
Modulus == 8

\* f, the number of tolerated faulty nodes, is drawn from 0 .. MaxF.
MaxF == 1

(***************************************************************************)
(* Messages.  A ParsedMessage carries its info (msg_type, view, seq_num,   *)
(* signer_id), the block it is about, and from_self.                       *)
(***************************************************************************)

PbftMessageType ==
  {"BlockNew", "PrePrepare", "Prepare", "Commit", "Checkpoint", "ViewChange"}

U64 == 0 .. (Modulus - 1)

Msg(t, v, s, signer, b, self) ==
  [msg_type |-> t, view |-> v, seq_num |-> s, signer_id |-> signer,
   block |-> b, from_self |-> self]

\* get_pbft_message(): the PbftMessage inside a ParsedMessage (info and block,
\* without from_self).
PbftMessageOf(msg) ==
  [msg_type |-> msg.msg_type, view |-> msg.view, seq_num |-> msg.seq_num,
   signer_id |-> msg.signer_id, block |-> msg.block]

\* A PbftMessageInfo as the quorum predicates read it: seq_num and view.
Info(s, v) == [seq_num |-> s, view |-> v]

VARIABLES
  messages,                  \* HashSet<ParsedMessage>
  low_water_mark,            \* u64
  high_water_mark,           \* u64
  max_log_size,              \* u64
  cycles,                    \* u64
  checkpoint_period,         \* u64
  backlog,                   \* VecDeque<ParsedMessage>
  block_backlog,             \* VecDeque<Block>
  latest_stable_checkpoint,  \* Option<PbftStableCheckpoint>: <<>> or <<cp>>
  ret,                       \* the last call: its name, arguments and result
  counted,                   \* history: the BlockNews that incremented cycles
  faulted,                   \* history: the infos for which check_prepared
                             \* returned BlockMismatch since the last
                             \* garbage_collect
  new_block_news             \* history: how many BlockNews entered the store
                             \* since construction or the last garbage_collect

vars == <<messages, low_water_mark, high_water_mark, max_log_size, cycles,
          checkpoint_period, backlog, block_backlog,
          latest_stable_checkpoint, ret, counted, faulted,
          new_block_news>>

logVars == <<messages, low_water_mark, high_water_mark, max_log_size, cycles,
             checkpoint_period, backlog, block_backlog,
             latest_stable_checkpoint>>

\* A call that panicked (arithmetic overflow in a build with overflow checks)
\* never returns: the log is not used again.
Panicked == ret.op = "garbage_collect" /\ ret.val = "panic"

Call(op, arg, val) == [op |-> op, arg |-> arg, val |-> val]

(***************************************************************************)
(* PbftLog::new                                                            *)
(***************************************************************************)
New(config) ==
  /\ messages = {}
  /\ low_water_mark = 0
  /\ cycles = 0
  /\ checkpoint_period = config.checkpoint_period
  /\ high_water_mark = config.max_log_size
  /\ max_log_size = config.max_log_size
  /\ backlog = <<>>
  /\ block_backlog = <<>>
  /\ latest_stable_checkpoint = <<>>
  /\ ret = Call("new", config, "ok")
  /\ counted = {}
  /\ faulted = {}
  /\ new_block_news = 0


(***************************************************************************)
(* Results.  Result<T, PbftError> is Ok(value) or Err(error); an Option is *)
(* <<>> (None) or <<x>> (Some(x)).                                         *)
(***************************************************************************)
Ok(v) == [tag |-> "Ok", value |-> v, error |-> <<>>]
Err(e) == [tag |-> "Err", value |-> FALSE, error |-> e]
BlockMismatch(b1, b2) == <<"BlockMismatch", b1, b2>>
NotReadyForMessage == <<"NotReadyForMessage">>

\* Every order in which a set can be iterated (a HashSet's iteration order is
\* unspecified), as sequences without repetition.
Orders(S) ==
  {s \in [1 .. Cardinality(S) -> S] : \A i, j \in DOMAIN s : s[i] = s[j] => i = j}

(***************************************************************************)
(* Queries over the message store.                                         *)
(***************************************************************************)
GetMessagesOfTypeSeq(msg_type, sequence_number) ==
  {msg \in messages :
     /\ msg.msg_type = msg_type
     /\ msg.seq_num = sequence_number}

\* A lookup that forgets to compare the view.
GetMessagesOfTypeSeqView_AnyView(msg_type, sequence_number, view) ==
  {msg \in messages :
     /\ msg.msg_type = msg_type
     /\ msg.seq_num = sequence_number}

GetMessagesOfTypeSeqView(msg_type, sequence_number, view) ==
  {msg \in messages :
     /\ msg.msg_type = msg_type
     /\ msg.seq_num = sequence_number
     /\ msg.view = view}

\* get_one_msg returns the first message of the matching ones in the set's
\* iteration order: any of them may come first.  The possible results.
GetOneMsg(info, msg_type) ==
  LET msgs == GetMessagesOfTypeSeqView(msg_type, info.seq_num, info.view)
  IN  IF msgs = {} THEN {<<>>} ELSE {<<msg>> : msg \in msgs}

LogHasRequiredMsgs(msg_type, ref_msg, check_block, required) ==
  LET all == GetMessagesOfTypeSeqView(msg_type, ref_msg.seq_num, ref_msg.view)
      msgs == IF check_block
                THEN {msg \in all : msg.block = ref_msg.block}
                ELSE all
  IN  Cardinality(msgs) >= required

\* A check_prepared that is content with 2f matching Prepares.
CheckPreparedOf_TwoF(block_new_msg, preprep_msg, f) ==
  IF block_new_msg = <<>> \/ preprep_msg = <<>>
    THEN Ok(FALSE)
    ELSE IF block_new_msg[1].block # preprep_msg[1].block
      THEN Err(BlockMismatch(block_new_msg[1].block, preprep_msg[1].block))
      ELSE Ok(LogHasRequiredMsgs("Prepare", preprep_msg[1], TRUE, 2 * f))

\* check_prepared, given what its two get_one_msg calls returned.
CheckPreparedOf(block_new_msg, preprep_msg, f) ==
  IF block_new_msg = <<>> \/ preprep_msg = <<>>
    THEN Ok(FALSE)
    ELSE IF block_new_msg[1].block # preprep_msg[1].block
      THEN Err(BlockMismatch(block_new_msg[1].block, preprep_msg[1].block))
      ELSE Ok(LogHasRequiredMsgs("Prepare", preprep_msg[1], TRUE, 2 * f + 1))

\* A check_committable that does not ask for check_prepared first.
CheckCommittableOf_NotPrepared(block_new_msg, preprep_msg, f) ==
  IF preprep_msg = <<>>
    THEN Ok(FALSE)
    ELSE Ok(LogHasRequiredMsgs("Commit", preprep_msg[1], TRUE, 2 * f + 1))

\* check_committable, given what the get_one_msg calls returned (the store is
\* not touched between the two PrePrepare lookups, which return the same one).
CheckCommittableOf(block_new_msg, preprep_msg, f) ==
  LET prepared == CheckPreparedOf(block_new_msg, preprep_msg, f)
  IN  IF prepared.tag = "Err"
        THEN prepared
        ELSE IF ~prepared.value
          THEN Ok(FALSE)
          ELSE Ok(LogHasRequiredMsgs("Commit", preprep_msg[1], TRUE, 2 * f + 1))

\* A get_enough_messages that counts the node's own messages too.
GetEnoughMessages_CountsSelf(msg_type, sequence_number, minimum) ==
  LET cand == {msg \in messages :
                 /\ msg.msg_type = msg_type
                 /\ msg.seq_num = sequence_number}
      group(v) == {msg \in cand : msg.view = v}
      enough == {v \in {msg.view : msg \in cand} :
                   Cardinality(group(v)) >= minimum}
  IN  IF enough = {}
        THEN <<>>
        ELSE <<group(CHOOSE v \in enough : \A w \in enough : w <= v)>>

\* get_enough_messages: None, or the messages of the highest view that has at
\* least `minimum` of them (the vector's order is the set's iteration order and
\* is left out: the result is given as a set).
GetEnoughMessages(msg_type, sequence_number, minimum) ==
  LET cand == {msg \in messages :
                 /\ msg.msg_type = msg_type
                 /\ msg.seq_num = sequence_number
                 /\ ~msg.from_self}
      group(v) == {msg \in cand : msg.view = v}
      enough == {v \in {msg.view : msg \in cand} :
                   Cardinality(group(v)) >= minimum}
  IN  IF enough = {}
        THEN <<>>
        ELSE <<group(CHOOSE v \in enough : \A w \in enough : w <= v)>>

GetLatestCheckpointOf(cp) ==
  IF cp # <<>> THEN cp[1].seq_num ELSE 0

GetLatestCheckpoint == GetLatestCheckpointOf(latest_stable_checkpoint)

\* An at_checkpoint that needs one cycle more than the period.
AtCheckpoint_Strict == cycles > checkpoint_period

AtCheckpoint == cycles >= checkpoint_period

(***************************************************************************)
(* PbftLog::add_message.  `view` is state.view, the node's current view.   *)
(***************************************************************************)
\* A bounds check that forgets the low water mark.
OutsideLogBounds_UpperOnly(msg) ==
  msg.seq_num >= high_water_mark

\* A bounds check that admits the high water mark itself.
OutsideLogBounds_OffByOne(msg) ==
  \/ msg.seq_num > high_water_mark
  \/ msg.seq_num < low_water_mark

\* A bounds check that admits the sequence number just below the low water
\* mark.
OutsideLogBounds_LowExclusive(msg) ==
  \/ msg.seq_num >= high_water_mark
  \/ msg.seq_num + 1 < low_water_mark

OutsideLogBounds(msg) ==
  \/ msg.seq_num >= high_water_mark
  \/ msg.seq_num < low_water_mark

\* A view check with the comparison inverted.
NotForView_Inverted(msg, view) ==
  /\ msg.msg_type # "Checkpoint"
  /\ msg.msg_type # "ViewChange"
  /\ msg.view = view

\* A view check without the exemption of Checkpoint and ViewChange.
NotForView_AllKinds(msg, view) ==
  msg.view # view

NotForView(msg, view) ==
  /\ msg.msg_type # "Checkpoint"
  /\ msg.msg_type # "ViewChange"
  /\ msg.view # view

\* An add_message that counts a BlockNew whether or not it was inserted.
AddMessageResult_CountsDuplicates(msg, view) ==
  IF OutsideLogBounds(msg) \/ NotForView(msg, view)
    THEN [messages |-> messages, cycles |-> cycles]
    ELSE [messages |-> messages \cup {msg},
          cycles |-> IF msg.msg_type = "BlockNew" THEN cycles + 1 ELSE cycles]

\* The store and the cycle counter after add_message(msg, state).
AddMessageResult(msg, view) ==
  IF OutsideLogBounds(msg)
    THEN [messages |-> messages, cycles |-> cycles]
    ELSE IF NotForView(msg, view)
      THEN [messages |-> messages, cycles |-> cycles]
      ELSE LET inserted == msg \notin messages
           IN  [messages |-> messages \cup {msg},
                cycles |-> IF msg.msg_type = "BlockNew" /\ inserted
                             THEN cycles + 1
                             ELSE cycles]

\* The history count of BlockNews that entered the store, after
\* add_message(msg, state).
NewBlockNewsAfter(msg, view) ==
  IF msg.msg_type = "BlockNew" /\ AddMessageResult(msg, view).messages # messages
    THEN new_block_news + 1
    ELSE new_block_news

\* The history of counted BlockNews after add_message(msg, state).
CountedAfter(msg, view) ==
  IF AddMessageResult(msg, view).cycles # cycles
    THEN counted \cup {msg}
    ELSE counted

AddMessage(msg, view) ==
  /\ ~Panicked
  /\ messages' = AddMessageResult(msg, view).messages
  /\ cycles' = AddMessageResult(msg, view).cycles
  /\ counted' = CountedAfter(msg, view)
  /\ new_block_news' = NewBlockNewsAfter(msg, view)
  /\ ret' = Call("add_message", [msg |-> msg, view |-> view], "ok")
  /\ UNCHANGED <<low_water_mark, high_water_mark, max_log_size,
                 checkpoint_period, backlog, block_backlog,
                 latest_stable_checkpoint, faulted>>

(***************************************************************************)
(* The backlog queues.                                                     *)
(***************************************************************************)
\* The model's queues hold at most MaxBacklog entries each.
MaxBacklog == 2

PushBacklog(msg) ==
  /\ ~Panicked
  /\ Len(backlog) < MaxBacklog
  /\ backlog' = Append(backlog, msg)
  /\ ret' = Call("push_backlog", [msg |-> msg], "ok")
  /\ UNCHANGED <<messages, low_water_mark, high_water_mark, max_log_size,
                 cycles, checkpoint_period, block_backlog,
                 latest_stable_checkpoint,
                 counted, faulted,
                 new_block_news>>

\* A pop_backlog that takes the newest entry (pop_back).
PopBacklog_Lifo ==
  /\ ~Panicked
  /\ backlog' = IF backlog = <<>>
                  THEN backlog
                  ELSE SubSeq(backlog, 1, Len(backlog) - 1)
  /\ ret' = Call("pop_backlog", <<>>,
                 IF backlog = <<>> THEN <<>> ELSE <<backlog[Len(backlog)]>>)
  /\ UNCHANGED <<messages, low_water_mark, high_water_mark, max_log_size,
                 cycles, checkpoint_period, block_backlog,
                 latest_stable_checkpoint, counted, faulted,
                 new_block_news>>

PopBacklog ==
  /\ ~Panicked
  /\ backlog' = IF backlog = <<>> THEN backlog ELSE Tail(backlog)
  /\ ret' = Call("pop_backlog", <<>>,
                 IF backlog = <<>> THEN <<>> ELSE <<Head(backlog)>>)
  /\ UNCHANGED <<messages, low_water_mark, high_water_mark, max_log_size,
                 cycles, checkpoint_period, block_backlog,
                 latest_stable_checkpoint,
                 counted, faulted,
                 new_block_news>>

PushBlockBacklog(block) ==
  /\ ~Panicked
  /\ Len(block_backlog) < MaxBacklog
  /\ block_backlog' = Append(block_backlog, block)
  /\ ret' = Call("push_block_backlog", [block |-> block], "ok")
  /\ UNCHANGED <<messages, low_water_mark, high_water_mark, max_log_size,
                 cycles, checkpoint_period, backlog,
                 latest_stable_checkpoint,
                 counted, faulted,
                 new_block_news>>

PopBlockBacklog ==
  /\ ~Panicked
  /\ block_backlog' =
       IF block_backlog = <<>> THEN block_backlog ELSE Tail(block_backlog)
  /\ ret' = Call("pop_block_backlog", <<>>,
                 IF block_backlog = <<>> THEN <<>> ELSE <<Head(block_backlog)>>)
  /\ UNCHANGED <<messages, low_water_mark, high_water_mark, max_log_size,
                 cycles, checkpoint_period, backlog,
                 latest_stable_checkpoint,
                 counted, faulted,
                 new_block_news>>

(***************************************************************************)
(* PbftLog::add_message_with_hint                                          *)
(***************************************************************************)
PbftHint == {"FutureMessage", "PastMessage", "PresentMessage"}

\* An add_message_with_hint that inserts a present message itself.
AddMessageWithHint_PresentInserts(msg, hint, view) ==
  /\ ~Panicked
  /\ ret' = Call("add_message_with_hint",
                 [msg |-> msg, hint |-> hint, view |-> view],
                 IF hint = "PresentMessage"
                   THEN Ok(TRUE)
                   ELSE Err(NotReadyForMessage))
  /\ CASE hint = "FutureMessage" ->
            /\ Len(backlog) < MaxBacklog
            /\ backlog' = Append(backlog, msg)
            /\ UNCHANGED <<messages, cycles, counted, new_block_news>>
       [] hint = "PastMessage" ->
            /\ messages' = AddMessageResult(msg, view).messages
            /\ cycles' = AddMessageResult(msg, view).cycles
            /\ counted' = CountedAfter(msg, view)
            /\ new_block_news' = NewBlockNewsAfter(msg, view)
            /\ UNCHANGED backlog
       [] hint = "PresentMessage" ->
            /\ messages' = AddMessageResult(msg, view).messages
            /\ cycles' = AddMessageResult(msg, view).cycles
            /\ counted' = CountedAfter(msg, view)
            /\ new_block_news' = NewBlockNewsAfter(msg, view)
            /\ UNCHANGED backlog
  /\ UNCHANGED <<low_water_mark, high_water_mark, max_log_size,
                 checkpoint_period, block_backlog, latest_stable_checkpoint,
                 faulted>>

AddMessageWithHint(msg, hint, view) ==
  /\ ~Panicked
  /\ ret' = Call("add_message_with_hint",
                 [msg |-> msg, hint |-> hint, view |-> view],
                 IF hint = "PresentMessage"
                   THEN Ok(TRUE)
                   ELSE Err(NotReadyForMessage))
  /\ CASE hint = "FutureMessage" ->
            /\ Len(backlog) < MaxBacklog
            /\ backlog' = Append(backlog, msg)
            /\ UNCHANGED <<messages, cycles, counted, new_block_news>>
       [] hint = "PastMessage" ->
            /\ messages' = AddMessageResult(msg, view).messages
            /\ cycles' = AddMessageResult(msg, view).cycles
            /\ counted' = CountedAfter(msg, view)
            /\ new_block_news' = NewBlockNewsAfter(msg, view)
            /\ UNCHANGED backlog
       [] hint = "PresentMessage" ->
            UNCHANGED <<messages, cycles, backlog, counted,
                           new_block_news>>
  /\ UNCHANGED <<low_water_mark, high_water_mark, max_log_size,
                 checkpoint_period, block_backlog, latest_stable_checkpoint,
                 faulted>>

(***************************************************************************)
(* PbftLog::garbage_collect                                                *)
(***************************************************************************)
\* An addition that saturates at the largest u64.
WrappingAdd_Saturating(a, b) ==
  IF a + b >= Modulus THEN Modulus - 1 ELSE a + b

\* u64 addition in a build without overflow checks.
WrappingAdd(a, b) == (a + b) % Modulus

\* low_water_mark + max_log_size overflows u64: a build with overflow checks
\* panics there, after low_water_mark was assigned; one without wraps around.

GarbageCollectOverflows(stable_checkpoint) ==
  stable_checkpoint + max_log_size >= Modulus

GarbageCollectPanic(stable_checkpoint, view) ==
  /\ ~Panicked
  /\ GarbageCollectOverflows(stable_checkpoint)
  /\ low_water_mark' = stable_checkpoint
  /\ ret' = Call("garbage_collect",
                 [stable_checkpoint |-> stable_checkpoint, view |-> view],
                 "panic")
  /\ UNCHANGED <<messages, high_water_mark, max_log_size, cycles,
                 checkpoint_period, backlog, block_backlog,
                 latest_stable_checkpoint,
                 counted, faulted,
                 new_block_news>>

\* A garbage_collect that prunes against the checkpoint it is replacing.
GarbageCollect_PrunesBeforeUpdate(stable_checkpoint, view) ==
  /\ ~Panicked
  /\ low_water_mark' = stable_checkpoint
  /\ high_water_mark' = WrappingAdd(low_water_mark', max_log_size)
  /\ cycles' = 0
  /\ \E cp_msgs \in Orders(GetMessagesOfTypeSeqView("Checkpoint",
                                                    stable_checkpoint, view)) :
       latest_stable_checkpoint' =
         <<[seq_num |-> stable_checkpoint,
            checkpoint_messages |->
              [i \in DOMAIN cp_msgs |-> PbftMessageOf(cp_msgs[i])]]>>
  /\ messages' =
       {msg \in messages :
          /\ msg.seq_num >= GetLatestCheckpointOf(latest_stable_checkpoint)
          /\ msg.seq_num > 0}
  /\ ret' = Call("garbage_collect",
                 [stable_checkpoint |-> stable_checkpoint, view |-> view],
                 "ok")
  /\ faulted' = {}
  /\ new_block_news' = 0
  /\ UNCHANGED <<max_log_size, checkpoint_period, backlog, block_backlog,
                 counted>>

\* A garbage_collect that also drops the messages at the checkpoint itself.
GarbageCollect_DropsCheckpointSeq(stable_checkpoint, view) ==
  /\ ~Panicked
  /\ low_water_mark' = stable_checkpoint
  /\ high_water_mark' = WrappingAdd(low_water_mark', max_log_size)
  /\ cycles' = 0
  /\ \E cp_msgs \in Orders(GetMessagesOfTypeSeqView("Checkpoint",
                                                    stable_checkpoint, view)) :
       latest_stable_checkpoint' =
         <<[seq_num |-> stable_checkpoint,
            checkpoint_messages |->
              [i \in DOMAIN cp_msgs |-> PbftMessageOf(cp_msgs[i])]]>>
  /\ messages' =
       {msg \in messages :
          /\ msg.seq_num > GetLatestCheckpointOf(latest_stable_checkpoint')
          /\ msg.seq_num > 0}
  /\ ret' = Call("garbage_collect",
                 [stable_checkpoint |-> stable_checkpoint, view |-> view],
                 "ok")
  /\ faulted' = {}
  /\ new_block_news' = 0
  /\ UNCHANGED <<max_log_size, checkpoint_period, backlog, block_backlog,
                 counted>>

\* A garbage_collect that leaves the cycle counter alone.
GarbageCollect_KeepsCycles(stable_checkpoint, view) ==
  /\ ~Panicked
  /\ low_water_mark' = stable_checkpoint
  /\ high_water_mark' = WrappingAdd(low_water_mark', max_log_size)
  /\ cycles' = cycles
  /\ \E cp_msgs \in Orders(GetMessagesOfTypeSeqView("Checkpoint",
                                                    stable_checkpoint, view)) :
       latest_stable_checkpoint' =
         <<[seq_num |-> stable_checkpoint,
            checkpoint_messages |->
              [i \in DOMAIN cp_msgs |-> PbftMessageOf(cp_msgs[i])]]>>
  /\ messages' =
       {msg \in messages :
          /\ msg.seq_num >= GetLatestCheckpointOf(latest_stable_checkpoint')
          /\ msg.seq_num > 0}
  /\ ret' = Call("garbage_collect",
                 [stable_checkpoint |-> stable_checkpoint, view |-> view],
                 "ok")
  /\ faulted' = {}
  /\ new_block_news' = 0
  /\ UNCHANGED <<max_log_size, checkpoint_period, backlog, block_backlog,
                 counted>>

GarbageCollect(stable_checkpoint, view) ==
  /\ ~Panicked
  /\ low_water_mark' = stable_checkpoint
  /\ high_water_mark' = WrappingAdd(low_water_mark', max_log_size)
  /\ cycles' = 0
  /\ \E cp_msgs \in Orders(GetMessagesOfTypeSeqView("Checkpoint",
                                                    stable_checkpoint, view)) :
       latest_stable_checkpoint' =
         <<[seq_num |-> stable_checkpoint,
            checkpoint_messages |->
              [i \in DOMAIN cp_msgs |-> PbftMessageOf(cp_msgs[i])]]>>
  /\ messages' =
       {msg \in messages :
          /\ msg.seq_num >= GetLatestCheckpointOf(latest_stable_checkpoint')
          /\ msg.seq_num > 0}
  /\ ret' = Call("garbage_collect",
                 [stable_checkpoint |-> stable_checkpoint, view |-> view],
                 "ok")
  /\ faulted' = {}
  /\ new_block_news' = 0
  /\ UNCHANGED <<max_log_size, checkpoint_period, backlog, block_backlog,
                 counted>>

(***************************************************************************)
(* The quorum predicates, called with (info, f).                           *)
(***************************************************************************)
\* The history of faulted infos after a check at `info` returned `val` (the
\* BlockMismatch of check_committable is the one its check_prepared returned).
FaultedAfter(info, val) ==
  IF val.tag = "Err" THEN faulted \cup {info} ELSE faulted

\* `got` records what the two get_one_msg calls of the check returned.
CheckPrepared(info, f) ==
  /\ ~Panicked
  /\ \E block_new_msg \in GetOneMsg(info, "BlockNew"),
        preprep_msg \in GetOneMsg(info, "PrePrepare") :
       ret' = [op |-> "check_prepared",
               arg |-> [info |-> info, f |-> f],
               got |-> [block_new_msg |-> block_new_msg,
                        preprep_msg |-> preprep_msg],
               val |-> CheckPreparedOf(block_new_msg, preprep_msg, f)]
  /\ faulted' = FaultedAfter(info, ret'.val)
  /\ UNCHANGED <<logVars, counted, new_block_news>>

CheckCommittable(info, f) ==
  /\ ~Panicked
  /\ \E block_new_msg \in GetOneMsg(info, "BlockNew"),
        preprep_msg \in GetOneMsg(info, "PrePrepare") :
       ret' = [op |-> "check_committable",
               arg |-> [info |-> info, f |-> f],
               got |-> [block_new_msg |-> block_new_msg,
                        preprep_msg |-> preprep_msg],
               val |-> CheckCommittableOf(block_new_msg, preprep_msg, f)]
  /\ faulted' = FaultedAfter(info, ret'.val)
  /\ UNCHANGED <<logVars, counted, new_block_news>>

\* get_enough_messages, called with (msg_type, sequence_number, minimum).
GetEnoughMessagesQuery(msg_type, sequence_number, minimum) ==
  /\ ~Panicked
  /\ ret' = Call("get_enough_messages",
                 [msg_type |-> msg_type, sequence_number |-> sequence_number,
                  minimum |-> minimum],
                 GetEnoughMessages(msg_type, sequence_number, minimum))
  /\ UNCHANGED <<logVars, counted, faulted,
                 new_block_news>>

(***************************************************************************)
(* Inputs.  Blocks and signers are opaque identities; the tests run four   *)
(* nodes.                                                                  *)
(***************************************************************************)
NumNodes == 4
Blocks == {"b1", "b2"}
Views == {0, 1}

(***************************************************************************)
(* SpecQuorum: one sequence number under the quorum predicates.  The       *)
(* primary (node 0) sends BlockNew and PrePrepare for either block; nodes  *)
(* 0 .. NumNodes-2 each send a Prepare and a Commit for block b1 in view   *)
(* 0; the last node sends a Prepare and a Commit for block b2 and a        *)
(* Prepare for b1 in view 1.                                               *)
(***************************************************************************)
QuorumMsgs ==
  {Msg(t, 0, 1, 0, b, FALSE) : t \in {"BlockNew", "PrePrepare"}, b \in Blocks}
    \cup {Msg(t, 0, 1, n, "b1", FALSE) :
            t \in {"Prepare", "Commit"}, n \in 0 .. (NumNodes - 2)}
    \cup {Msg("Prepare", 0, 1, NumNodes - 1, "b2", FALSE),
          Msg("Commit", 0, 1, NumNodes - 1, "b2", FALSE),
          Msg("Prepare", 1, 1, NumNodes - 1, "b1", FALSE)}

QuorumInfos == {Info(1, v) : v \in Views}

InitQuorum == New([checkpoint_period |-> 2, max_log_size |-> 4])

NextQuorum ==
  \/ \E msg \in QuorumMsgs, view \in Views : AddMessage(msg, view)
  \/ \E info \in QuorumInfos, f \in 0 .. MaxF : CheckPrepared(info, f)
  \/ \E info \in QuorumInfos, f \in 0 .. MaxF : CheckCommittable(info, f)

SpecQuorum == InitQuorum /\ [][NextQuorum]_vars

(***************************************************************************)
(* SpecSigners: as SpecQuorum with one block, where node 0 is this node:   *)
(* its Prepare and Commit are stored both as authored here (from_self) and *)
(* as received back from a peer; node 1 sends one Prepare and one Commit.  *)
(***************************************************************************)
SignerMsgs ==
  {Msg(t, 0, 1, 0, "b1", FALSE) : t \in {"BlockNew", "PrePrepare"}}
    \cup {Msg(t, 0, 1, 0, "b1", self) :
            t \in {"Prepare", "Commit"}, self \in BOOLEAN}
    \cup {Msg(t, 0, 1, 1, "b1", FALSE) : t \in {"Prepare", "Commit"}}

NextSigners ==
  \/ \E msg \in SignerMsgs : AddMessage(msg, 0)
  \/ \E f \in 0 .. MaxF : CheckPrepared(Info(1, 0), f)
  \/ \E f \in 0 .. MaxF : CheckCommittable(Info(1, 0), f)

SpecSigners == InitQuorum /\ [][NextSigners]_vars

(***************************************************************************)
(* SpecSeal: get_enough_messages over Commits at sequence number 1.  Node  *)
(* 0 is this node (from_self); view 0 has Commits of nodes 1 and 2 and one *)
(* of this node, view 1 one of node 1 and one of this node; a Prepare and  *)
(* a Commit at sequence number 2 are of no concern to the query.           *)
(***************************************************************************)
SealMsgs ==
  {Msg("Commit", 0, 1, n, "b1", FALSE) : n \in {1, 2}}
    \cup {Msg("Commit", v, 1, 0, "b1", TRUE) : v \in Views}
    \cup {Msg("Commit", 1, 1, 1, "b1", FALSE),
          Msg("Prepare", 1, 1, 2, "b1", FALSE),
          Msg("Commit", 1, 2, 1, "b1", FALSE)}

NextSeal ==
  \/ \E msg \in SealMsgs, view \in Views : AddMessage(msg, view)
  \/ \E minimum \in 0 .. (2 * MaxF) :
       GetEnoughMessagesQuery("Commit", 1, minimum)

SpecSeal == InitQuorum /\ [][NextSeal]_vars

(***************************************************************************)
(* SpecWindow: admission and garbage collection with max_log_size = 3.     *)
(* BlockNews at sequence numbers 0, 1 and 4, a Prepare, Checkpoints in     *)
(* both views, and a ViewChange at sequence number Modulus - 3, the first  *)
(* one at which low_water_mark + max_log_size overflows; garbage_collect   *)
(* is called with any of GcSeqs.                                           *)
(***************************************************************************)
WindowMsgs ==
  {Msg("BlockNew", 0, s, 0, "b1", FALSE) : s \in {0, 1, 4}}
    \cup {Msg("Prepare", 1, 1, 1, "b1", FALSE),
          Msg("ViewChange", 1, Modulus - 3, 1, "b1", FALSE)}
    \cup {Msg("Checkpoint", v, 4, 1, "b1", FALSE) : v \in Views}

GcSeqs == {0, 1, 4, Modulus - 3}

WindowConfigs == {[checkpoint_period |-> 2, max_log_size |-> 3]}

InitWindow == \E config \in WindowConfigs : New(config)

NextWindow ==
  \/ \E msg \in WindowMsgs, view \in Views : AddMessage(msg, view)
  \/ \E msg \in WindowMsgs, view \in Views,
        hint \in {"PastMessage", "PresentMessage"} :
       AddMessageWithHint(msg, hint, view)
  \/ \E stable_checkpoint \in GcSeqs, view \in Views :
       GarbageCollect(stable_checkpoint, view)
  \/ \E stable_checkpoint \in GcSeqs, view \in Views :
       GarbageCollectPanic(stable_checkpoint, view)

SpecWindow == InitWindow /\ [][NextWindow]_vars

(***************************************************************************)
(* Spec: every operation that changes the log, over two messages and two   *)
(* blocks.                                                                 *)
(***************************************************************************)
LogMsgs ==
  {Msg("BlockNew", 0, 1, 0, "b1", FALSE),
   Msg("Checkpoint", 1, 4, 1, "b2", FALSE)}

LogConfigs ==
  {[checkpoint_period |-> period, max_log_size |-> size] :
     period \in {0, 1}, size \in {0, 3}}

Init == \E config \in LogConfigs : New(config)

Next ==
  \/ \E msg \in LogMsgs, view \in Views : AddMessage(msg, view)
  \/ \E msg \in LogMsgs, view \in Views, hint \in PbftHint :
       AddMessageWithHint(msg, hint, view)
  \/ \E stable_checkpoint \in GcSeqs, view \in Views :
       GarbageCollect(stable_checkpoint, view)
  \/ \E stable_checkpoint \in GcSeqs, view \in Views :
       GarbageCollectPanic(stable_checkpoint, view)
  \/ \E msg \in LogMsgs : PushBacklog(msg)
  \/ PopBacklog
  \/ \E block \in Blocks : PushBlockBacklog(block)
  \/ PopBlockBacklog

Spec == Init /\ [][Next]_vars

(***************************************************************************)
(* Claims about the quorum predicates.                                     *)
(***************************************************************************)
\* The stored messages of a kind at an info's sequence number and view.
StoredAt(kind, info) ==
  {m \in messages :
     m.msg_type = kind /\ m.seq_num = info.seq_num /\ m.view = info.view}

\* The stored messages of a kind that have the sequence number, view and block
\* of message `ref`.
Matching(kind, ref) ==
  {m \in messages :
     /\ m.msg_type = kind
     /\ m.seq_num = ref.seq_num
     /\ m.view = ref.view
     /\ m.block = ref.block}

\* The store holds a BlockNew and a PrePrepare at info with one block and at
\* least 2f+1 Prepares matching the PrePrepare.
PreparedInStore(info, f) ==
  \E bn \in StoredAt("BlockNew", info), pp \in StoredAt("PrePrepare", info) :
     /\ bn.block = pp.block
     /\ Cardinality(Matching("Prepare", pp)) >= 2 * f + 1

IsCheck(op) == ret.op = op

\* C1 as stated: check_prepared(info, f) returns true if and only if the store
\* holds a BlockNew and a PrePrepare at info's sequence and view with identical
\* blocks and at least 2f+1 Prepares matching the PrePrepare, and it returns
\* false in every other case (BlockNew or PrePrepare absent, or fewer than
\* 2f+1 such Prepares).
C1_PreparedIffInStore ==
  IsCheck("check_prepared") =>
    ret.val = Ok(PreparedInStore(ret.arg.info, ret.arg.f))

\* C1 amended: check_prepared(info, f) returns false when no BlockNew or no
\* PrePrepare is stored at info's sequence and view; otherwise, for the
\* BlockNew and the PrePrepare that get_one_msg returned, it returns the
\* BlockMismatch fault when their blocks differ, and else true if and only if
\* at least 2f+1 stored Prepares have the PrePrepare's sequence, view and
\* block.  A result of true implies that the store holds a BlockNew and a
\* PrePrepare with identical blocks and 2f+1 matching Prepares.
C1_PreparedOfLocated ==
  IsCheck("check_prepared") =>
    LET info == ret.arg.info
        f == ret.arg.f
        bn == ret.got.block_new_msg
        pp == ret.got.preprep_msg
    IN  /\ (bn = <<>>) = (StoredAt("BlockNew", info) = {})
        /\ (pp = <<>>) = (StoredAt("PrePrepare", info) = {})
        /\ bn # <<>> => bn[1] \in StoredAt("BlockNew", info)
        /\ pp # <<>> => pp[1] \in StoredAt("PrePrepare", info)
        /\ (bn = <<>> \/ pp = <<>>) => ret.val = Ok(FALSE)
        /\ (bn # <<>> /\ pp # <<>>) =>
             IF bn[1].block # pp[1].block
               THEN ret.val = Err(BlockMismatch(bn[1].block, pp[1].block))
               ELSE ret.val =
                      Ok(Cardinality(Matching("Prepare", pp[1])) >= 2 * f + 1)
        /\ ret.val = Ok(TRUE) => PreparedInStore(info, f)

\* C1 witness: check_prepared was called with f = 1 and returned true.
C1_Witness ==
  /\ IsCheck("check_prepared")
  /\ ret.arg.f = 1
  /\ ret.val = Ok(TRUE)

\* C2: check_committable(info, f) returns true exactly when check_prepared
\* (on the same lookups of the BlockNew and the PrePrepare) returns true and at
\* least 2f+1 stored Commits have the PrePrepare's sequence, view and block; so
\* a result of true implies that check_prepared is true.
C2_CommittableIffPreparedAndCommits ==
  IsCheck("check_committable") =>
    LET info == ret.arg.info
        f == ret.arg.f
        bn == ret.got.block_new_msg
        pp == ret.got.preprep_msg
        prepared == CheckPreparedOf(bn, pp, f) = Ok(TRUE)
    IN  /\ ret.val = Ok(TRUE) <=>
             (prepared /\ Cardinality(Matching("Commit", pp[1])) >= 2 * f + 1)
        /\ ret.val = Ok(TRUE) =>
             /\ PreparedInStore(info, f)
             /\ Cardinality(Matching("Prepare", pp[1])) >= 2 * f + 1

\* C2 witness: check_committable was called with f = 1 and returned true.
C2_Witness ==
  /\ IsCheck("check_committable")
  /\ ret.arg.f = 1
  /\ ret.val = Ok(TRUE)

\* C3 as stated: whenever the store holds a BlockNew and a PrePrepare at info's
\* sequence and view whose blocks differ, check_prepared and check_committable
\* return the BlockMismatch fault carrying the two blocks, never true or false.
C3_MismatchIsFault ==
  (IsCheck("check_prepared") \/ IsCheck("check_committable")) =>
    LET info == ret.arg.info
        differing ==
          {pair \in StoredAt("BlockNew", info) \X StoredAt("PrePrepare", info) :
             pair[1].block # pair[2].block}
    IN  differing # {} =>
          \E pair \in differing :
             ret.val = Err(BlockMismatch(pair[1].block, pair[2].block))

\* C4 as stated: whenever check_prepared (check_committable) returns true, the
\* Prepares (Commits) counted toward 2f+1 come from at least 2f+1 different
\* signers.
C4_QuorumOfDistinctSigners ==
  /\ ((IsCheck("check_prepared") \/ IsCheck("check_committable"))
        /\ ret.val = Ok(TRUE)) =>
       Cardinality({m.signer_id :
                      m \in Matching("Prepare", ret.got.preprep_msg[1])})
         >= 2 * ret.arg.f + 1
  /\ (IsCheck("check_committable") /\ ret.val = Ok(TRUE)) =>
       Cardinality({m.signer_id :
                      m \in Matching("Commit", ret.got.preprep_msg[1])})
         >= 2 * ret.arg.f + 1

(***************************************************************************)
(* Claims about the window and admission.                                  *)
(***************************************************************************)
\* C5: in every state between calls (a call that panicked on overflow has not
\* returned), high_water_mark = low_water_mark + max_log_size in u64
\* arithmetic, whatever add_message, add_message_with_hint, garbage_collect
\* and backlog calls were made.
C5_HighIsLowPlusSize ==
  ~Panicked =>
    /\ high_water_mark \in U64
    /\ high_water_mark = (low_water_mark + max_log_size) % Modulus

\* C5 witness: garbage_collect returned with the sum wrapped around.
C5_Witness ==
  /\ ret.op = "garbage_collect"
  /\ ret.val = "ok"
  /\ low_water_mark + max_log_size >= Modulus
  /\ high_water_mark < low_water_mark

\* Every stored message has low_water_mark <= seq_num < high_water_mark.
AllInWindow ==
  \A m \in messages :
     low_water_mark <= m.seq_num /\ m.seq_num < high_water_mark

\* C6 as stated: every stored message is inside the window in every state
\* reached by add_message, add_message_with_hint and garbage_collect calls with
\* arbitrary stable_sequence arguments.
C6_AllInWindow == ~Panicked => AllInWindow

\* A garbage_collect call that moves the window back, or whose
\* low_water_mark + max_log_size overflows.
BackwardOrOverflowingGc ==
  /\ ret'.op = "garbage_collect"
  /\ \/ ret'.arg.stable_checkpoint < low_water_mark
     \/ ret'.arg.stable_checkpoint + max_log_size >= Modulus

\* C6 amended: every stored message is inside the window as long as every
\* garbage_collect call was made with a stable_sequence that is at least the
\* current low_water_mark and with stable_sequence + max_log_size < 2^64: the
\* store is empty after construction, and every other call keeps the property.
C6_WindowKeptByForwardGc ==
  [][(AllInWindow /\ ~BackwardOrOverflowingGc) => AllInWindow']_vars

\* C6 witness: garbage_collect moved the window forward and a message is
\* stored inside it.
C6_Witness ==
  /\ ret.op = "garbage_collect"
  /\ ret.val = "ok"
  /\ ret.arg.stable_checkpoint > 0
  /\ low_water_mark + max_log_size < Modulus
  /\ messages # {}
  /\ AllInWindow

IsAddMessage == ret.op = "add_message"

OutOfWindow(m) ==
  m.seq_num < low_water_mark \/ m.seq_num >= high_water_mark

ViewScoped == {"BlockNew", "PrePrepare", "Prepare", "Commit"}

\* C7: add_message(m, current_view) of a message of any kind whose sequence
\* number is below low_water_mark or at or above high_water_mark leaves the
\* message store unchanged and returns normally.
C7_OutOfWindowDropped ==
  [][(IsAddMessage' /\ OutOfWindow(ret'.arg.msg)) =>
       (messages' = messages /\ ret'.val = "ok")]_vars

\* C7 witness: add_message returned for a Checkpoint or ViewChange outside the
\* window while the store holds messages.
C7_Witness ==
  /\ IsAddMessage
  /\ OutOfWindow(ret.arg.msg)
  /\ ret.arg.msg.msg_type \in {"Checkpoint", "ViewChange"}
  /\ messages # {}

\* C8: add_message(m, current_view) of a BlockNew, PrePrepare, Prepare or
\* Commit whose view differs from current_view leaves the message store
\* unchanged.
C8_WrongViewDropped ==
  [][(/\ IsAddMessage'
      /\ ret'.arg.msg.msg_type \in ViewScoped
      /\ ret'.arg.msg.view # ret'.arg.view) =>
       messages' = messages]_vars

\* C8 witness: add_message returned for a BlockNew inside the window whose
\* view is not the current view, while the store holds messages.
C8_Witness ==
  /\ IsAddMessage
  /\ ret.arg.msg.msg_type = "BlockNew"
  /\ ret.arg.msg.view # ret.arg.view
  /\ ~OutOfWindow(ret.arg.msg)
  /\ ret.arg.msg \notin messages
  /\ messages # {}

\* C9: add_message(m, current_view) of a message inside the window that has
\* the current view, or is a Checkpoint or ViewChange of any view, leaves the
\* store holding m and every message stored before (and nothing else),
\* whatever was rejected earlier.
C9_Admitted ==
  [][(/\ IsAddMessage'
      /\ ~OutOfWindow(ret'.arg.msg)
      /\ \/ ret'.arg.msg.view = ret'.arg.view
         \/ ret'.arg.msg.msg_type \in {"Checkpoint", "ViewChange"}) =>
       messages' = messages \cup {ret'.arg.msg}]_vars

\* C9 witness: a Checkpoint or ViewChange of another view than the current one
\* was admitted beside an earlier message.
C9_Witness ==
  /\ IsAddMessage
  /\ ret.arg.msg.msg_type \in {"Checkpoint", "ViewChange"}
  /\ ret.arg.msg.view # ret.arg.view
  /\ ret.arg.msg \in messages
  /\ Cardinality(messages) >= 2

\* C10 as stated: adding a stored message again leaves the store unchanged,
\* and over any sequence of operations, garbage_collect included, cycles is
\* incremented exactly once per distinct BlockNew (only by a BlockNew that
\* never incremented it before) and never for another kind.
C10_OncePerDistinctBlockNew ==
  [][IsAddMessage' =>
       LET m == ret'.arg.msg
       IN  /\ m \in messages => messages' = messages
           /\ cycles' # cycles =>
                /\ cycles' = cycles + 1
                /\ m.msg_type = "BlockNew"
                /\ m \notin counted
           /\ (m.msg_type = "BlockNew" /\ m \in messages' /\ m \notin counted)
                => cycles' = cycles + 1]_vars

\* C10 amended: adding a stored message again leaves the store and cycles
\* unchanged; cycles is incremented exactly when add_message inserts a
\* BlockNew that is not in the store at that moment (so a BlockNew that
\* garbage_collect pruned is counted again when it is added again), and never
\* for a stored BlockNew or another kind.
C10_OncePerInsertedBlockNew ==
  [][IsAddMessage' =>
       LET m == ret'.arg.msg
       IN  /\ m \in messages => (messages' = messages /\ cycles' = cycles)
           /\ cycles' =
                IF m.msg_type = "BlockNew" /\ m \notin messages /\ m \in messages'
                  THEN cycles + 1
                  ELSE cycles]_vars

\* C10 witness: add_message of a BlockNew returned with two BlockNews stored
\* and counted.
C10_Witness ==
  /\ IsAddMessage
  /\ ret.arg.msg.msg_type = "BlockNew"
  /\ ret.arg.msg \in messages
  /\ cycles = 2
  /\ Cardinality({m \in messages : m.msg_type = "BlockNew"}) = 2

(***************************************************************************)
(* Claims about garbage collection and checkpoints.                        *)
(***************************************************************************)
GcReturned == ret.op = "garbage_collect" /\ ret.val = "ok"

\* C11: immediately after garbage_collect(S, V) has returned, low_water_mark
\* is S, no stored message has a sequence number below S and none has sequence
\* number 0.
C11_PrunedBelowCheckpoint ==
  GcReturned =>
    /\ low_water_mark = ret.arg.stable_checkpoint
    /\ \A m \in messages :
         m.seq_num >= ret.arg.stable_checkpoint /\ m.seq_num # 0

\* C11 witness: garbage_collect(S, V) with S > 0 returned, a BlockNew admitted
\* below S is gone and the store is not empty.
C11_Witness ==
  /\ GcReturned
  /\ ret.arg.stable_checkpoint > 0
  /\ messages # {}
  /\ \E m \in counted :
       m.seq_num > 0 /\ m.seq_num < ret.arg.stable_checkpoint /\ m \notin messages

\* C12: the store after garbage_collect(S, V) is exactly the set of messages
\* stored before the call whose sequence number is >= S and > 0: every such
\* message of every kind and view survives and nothing is added.
C12_KeepsExactlyFromCheckpoint ==
  [][GcReturned' =>
       messages' = {m \in messages :
                      /\ m.seq_num >= ret'.arg.stable_checkpoint
                      /\ m.seq_num > 0}]_vars

\* C12 witness: garbage_collect(S, V) returned with a BlockNew at S and a
\* Checkpoint of another view than V still stored.
C12_Witness ==
  /\ GcReturned
  /\ \E m \in messages :
       m.msg_type = "BlockNew" /\ m.seq_num = ret.arg.stable_checkpoint
  /\ \E m \in messages :
       m.msg_type = "Checkpoint" /\ m.view # ret.arg.view

\* C13: after garbage_collect(S, V) the stable checkpoint has sequence number S
\* and holds exactly the Checkpoint messages that were stored at sequence S and
\* view V just before the call, whatever the record was before;
\* get_latest_checkpoint then returns S, and it returns 0 as long as there is
\* no stable checkpoint.
C13_CheckpointRecord ==
  /\ [](latest_stable_checkpoint = <<>> => GetLatestCheckpoint = 0)
  /\ [][GcReturned' =>
          LET S == ret'.arg.stable_checkpoint
              stored == {m \in messages :
                           /\ m.msg_type = "Checkpoint"
                           /\ m.seq_num = S
                           /\ m.view = ret'.arg.view}
          IN  /\ latest_stable_checkpoint' # <<>>
              /\ latest_stable_checkpoint'[1].seq_num = S
              /\ LET cp_msgs == latest_stable_checkpoint'[1].checkpoint_messages
                 IN  /\ Len(cp_msgs) = Cardinality(stored)
                     /\ {cp_msgs[i] : i \in DOMAIN cp_msgs} =
                          {PbftMessageOf(m) : m \in stored}
              /\ GetLatestCheckpoint' = S]_vars

\* C13 witness: garbage_collect(S, V) returned with a checkpoint holding one
\* message while a Checkpoint message of another view is stored at S.
C13_Witness ==
  /\ GcReturned
  /\ latest_stable_checkpoint # <<>>
  /\ Len(latest_stable_checkpoint[1].checkpoint_messages) = 1
  /\ GetLatestCheckpoint = ret.arg.stable_checkpoint
  /\ \E m \in messages :
       /\ m.msg_type = "Checkpoint"
       /\ m.seq_num = ret.arg.stable_checkpoint
       /\ m.view # ret.arg.view

\* C14 as stated: immediately after construction, for every configuration,
\* the store is empty, the window is [0, max_log_size), get_latest_checkpoint
\* returns 0 and at_checkpoint is false.
C14_FreshLogNotDue ==
  ret.op = "new" =>
    /\ messages = {}
    /\ low_water_mark = 0
    /\ high_water_mark = ret.arg.max_log_size
    /\ GetLatestCheckpoint = 0
    /\ ~AtCheckpoint

\* C14 amended: immediately after construction, for every configuration, the
\* store is empty, the window is [0, max_log_size) and get_latest_checkpoint
\* returns 0; at_checkpoint is false when checkpoint_period >= 1 and true when
\* checkpoint_period = 0.
C14_FreshLogDueIffPeriodZero ==
  ret.op = "new" =>
    /\ messages = {}
    /\ low_water_mark = 0
    /\ high_water_mark = ret.arg.max_log_size
    /\ GetLatestCheckpoint = 0
    /\ AtCheckpoint <=> (ret.arg.checkpoint_period = 0)

\* C14 witness: a log just constructed with a positive checkpoint_period and a
\* positive max_log_size.
C14_Witness ==
  /\ ret.op = "new"
  /\ checkpoint_period > 0
  /\ max_log_size > 0
  /\ ~AtCheckpoint

(***************************************************************************)
(* Claims about add_message_with_hint and the backlogs.                    *)
(***************************************************************************)
IsAddMessageWithHint == ret.op = "add_message_with_hint"

\* C15: add_message_with_hint's result depends only on the hint.  Future
\* appends the message to the tail of the message backlog, leaves the store,
\* the window and cycles unchanged and returns not-ready; Past changes the
\* state exactly as add_message(msg, current_view) does and returns not-ready
\* whether the message was inserted or dropped; Present changes nothing and
\* returns success.
C15_HintDecides ==
  [][IsAddMessageWithHint' =>
       LET msg == ret'.arg.msg
           hint == ret'.arg.hint
           view == ret'.arg.view
       IN  /\ hint = "FutureMessage" =>
                /\ backlog' = Append(backlog, msg)
                /\ UNCHANGED <<messages, low_water_mark, high_water_mark,
                               max_log_size, cycles, checkpoint_period,
                               block_backlog, latest_stable_checkpoint>>
                /\ ret'.val = Err(NotReadyForMessage)
           /\ hint = "PastMessage" =>
                /\ messages' = AddMessageResult(msg, view).messages
                /\ cycles' = AddMessageResult(msg, view).cycles
                /\ UNCHANGED <<low_water_mark, high_water_mark, max_log_size,
                               checkpoint_period, backlog, block_backlog,
                               latest_stable_checkpoint>>
                /\ ret'.val = Err(NotReadyForMessage)
           /\ hint = "PresentMessage" =>
                /\ UNCHANGED logVars
                /\ ret'.val = Ok(TRUE)]_vars

\* C15 witness: add_message_with_hint with hint Past returned for a message
\* that is stored, while a message pushed with hint Future waits in the
\* backlog.
C15_Witness ==
  /\ IsAddMessageWithHint
  /\ ret.arg.hint = "PastMessage"
  /\ ret.arg.msg \in messages
  /\ backlog # <<>>

(***************************************************************************)
(* Claims about get_enough_messages.                                       *)
(***************************************************************************)
IsGetEnoughMessages == ret.op = "get_enough_messages"

\* The stored messages of the query's kind and sequence number at view v that
\* this node did not author.
NotFromSelfAt(arg, v) ==
  {m \in messages :
     /\ m.msg_type = arg.msg_type
     /\ m.seq_num = arg.sequence_number
     /\ m.view = v
     /\ ~m.from_self}

\* The result that is the group of the highest view among `views`, or none.
HighestGroup(arg, views) ==
  IF views = {}
    THEN <<>>
    ELSE <<NotFromSelfAt(arg, CHOOSE v \in views : \A w \in views : w <= v)>>

\* C16 as stated: get_enough_messages(kind, seq, minimum) returns none if and
\* only if no view has at least `minimum` stored messages of that kind and
\* sequence with from_self = false; otherwise it returns exactly those messages
\* at the highest view that has at least `minimum` of them.
C16_HighestViewWithMinimum ==
  IsGetEnoughMessages =>
    ret.val =
      HighestGroup(ret.arg,
                   {v \in U64 :
                      Cardinality(NotFromSelfAt(ret.arg, v)) >= ret.arg.minimum})

\* C16 amended: get_enough_messages(kind, seq, minimum) returns none if and
\* only if no view has at least one and at least `minimum` stored messages of
\* that kind and sequence with from_self = false (so with minimum = 0 a view
\* without such messages does not qualify); otherwise it returns exactly those
\* messages at the highest view that has at least one and at least `minimum` of
\* them: never a self-authored message, never two views, never a lower
\* qualifying view when a higher one qualifies.
C16_HighestNonEmptyViewWithMinimum ==
  IsGetEnoughMessages =>
    /\ ret.val =
         HighestGroup(ret.arg,
                      {v \in U64 :
                         /\ NotFromSelfAt(ret.arg, v) # {}
                         /\ Cardinality(NotFromSelfAt(ret.arg, v))
                              >= ret.arg.minimum})
    /\ ret.val # <<>> =>
         /\ \A m \in ret.val[1] : ~m.from_self
         /\ \A m, n \in ret.val[1] : m.view = n.view

\* C16 witness: get_enough_messages with minimum 2 returned the messages of a
\* view while a higher view holds a message from a peer and one from this node.
C16_Witness ==
  /\ IsGetEnoughMessages
  /\ ret.arg.minimum = 2
  /\ ret.val # <<>>
  /\ \E m \in ret.val[1], n, o \in messages :
       /\ n.msg_type = m.msg_type /\ n.seq_num = m.seq_num
       /\ o.msg_type = m.msg_type /\ o.seq_num = m.seq_num
       /\ n.view > m.view /\ ~n.from_self
       /\ o.view > m.view /\ o.from_self

\* C17: the message backlog and the block backlog are FIFO and independent.
\* A push appends at the tail of its own queue, a pop removes and returns the
\* head of its own queue, or returns none and changes nothing when it is
\* empty; apart from the push of add_message_with_hint with hint Future, no
\* other operation (on the other queue, on the store, garbage_collect) changes
\* a queue.
C17_FifoAndIndependent ==
  [][LET op == ret'.op
     IN  /\ op = "push_backlog" => backlog' = Append(backlog, ret'.arg.msg)
         /\ op = "push_block_backlog" =>
              block_backlog' = Append(block_backlog, ret'.arg.block)
         /\ op = "pop_backlog" =>
              IF backlog = <<>>
                THEN ret'.val = <<>> /\ backlog' = <<>>
                ELSE /\ ret'.val = <<backlog[1]>>
                     /\ backlog' = SubSeq(backlog, 2, Len(backlog))
         /\ op = "pop_block_backlog" =>
              IF block_backlog = <<>>
                THEN ret'.val = <<>> /\ block_backlog' = <<>>
                ELSE /\ ret'.val = <<block_backlog[1]>>
                     /\ block_backlog' =
                          SubSeq(block_backlog, 2, Len(block_backlog))
         /\ op = "add_message_with_hint" =>
              backlog' = IF ret'.arg.hint = "FutureMessage"
                           THEN Append(backlog, ret'.arg.msg)
                           ELSE backlog
         /\ op \notin {"push_backlog", "pop_backlog", "add_message_with_hint"}
              => backlog' = backlog
         /\ op \notin {"push_block_backlog", "pop_block_backlog"}
              => block_backlog' = block_backlog]_vars

\* C17 witness: pop_backlog returned the older of two different queued
\* messages and left the newer one, while the block backlog holds two blocks.
C17_Witness ==
  /\ ret.op = "pop_backlog"
  /\ ret.val # <<>>
  /\ Len(backlog) = 1
  /\ backlog[1] # ret.val[1]
  /\ Len(block_backlog) = 2

(***************************************************************************)
(* Claims about the quorum predicates when several BlockNews or            *)
(* PrePrepares are stored at one sequence number and view.                 *)
(***************************************************************************)
\* C18 as stated: the result of check_prepared(info, f) and of
\* check_committable(info, f) is a function of the store alone: it is the same
\* whichever stored BlockNew and PrePrepare at info get_one_msg returns.
C18_ResultOfStoreAlone ==
  /\ IsCheck("check_prepared") =>
       \A bn \in GetOneMsg(ret.arg.info, "BlockNew"),
          pp \in GetOneMsg(ret.arg.info, "PrePrepare") :
          CheckPreparedOf(bn, pp, ret.arg.f) = ret.val
  /\ IsCheck("check_committable") =>
       \A bn \in GetOneMsg(ret.arg.info, "BlockNew"),
          pp \in GetOneMsg(ret.arg.info, "PrePrepare") :
          CheckCommittableOf(bn, pp, ret.arg.f) = ret.val

\* C19 as stated: once check_prepared has returned BlockMismatch for a
\* sequence number and view, no later add_message calls (without a
\* garbage_collect) make check_prepared or check_committable return true for
\* that sequence number and view.
C19_MismatchIsPermanent ==
  ((IsCheck("check_prepared") \/ IsCheck("check_committable"))
     /\ ret.val = Ok(TRUE)) =>
    ret.arg.info \notin faulted

(***************************************************************************)
(* Claims about the window over several garbage collections.               *)
(***************************************************************************)
\* C20 as stated: over any sequence of garbage_collect calls low_water_mark
\* and the latest stable checkpoint's sequence number never decrease (which
\* with the bounds check of add_message keeps a message that was below
\* low_water_mark after some garbage_collect out of the store for good).
C20_WindowNeverSlidesBack ==
  [][~Panicked' =>
       /\ low_water_mark' >= low_water_mark
       /\ GetLatestCheckpoint' >= GetLatestCheckpoint]_vars

\* C20 amended: a garbage_collect(S, V) with S at least the current
\* low_water_mark does not decrease low_water_mark or the latest stable
\* checkpoint's sequence number, no other operation changes either, and
\* add_message (also through add_message_with_hint) never admits a message
\* whose sequence number is below the current low_water_mark; so as long as
\* every garbage_collect is called with such an S, a message that was below
\* low_water_mark after some garbage_collect is never admitted later.
C20_ForwardGcKeepsOrder ==
  [][/\ (GcReturned' /\ ret'.arg.stable_checkpoint >= low_water_mark) =>
          /\ low_water_mark' >= low_water_mark
          /\ GetLatestCheckpoint' >= GetLatestCheckpoint
     /\ ret'.op # "garbage_collect" =>
          /\ low_water_mark' = low_water_mark
          /\ GetLatestCheckpoint' = GetLatestCheckpoint
     /\ (/\ ret'.op \in {"add_message", "add_message_with_hint"}
         /\ ret'.arg.msg.seq_num < low_water_mark) =>
          messages' = messages]_vars

\* C20 witness: after a garbage_collect moved the window forward, add_message
\* returned for a BlockNew that had been admitted before and is now below
\* low_water_mark, and the store does not hold it.
C20_Witness ==
  /\ IsAddMessage
  /\ ret.arg.msg \in counted
  /\ ret.arg.msg.seq_num < low_water_mark
  /\ ret.arg.msg \notin messages
  /\ GetLatestCheckpoint = low_water_mark

(***************************************************************************)
(* Claims about the cycle counter and about the quorum predicates over     *)
(* time.                                                                   *)
(***************************************************************************)
\* C21: in every state between calls, at_checkpoint is true exactly when the
\* number of BlockNews that entered the store since construction or since the
\* last garbage_collect is at least checkpoint_period: garbage_collect starts
\* the count again at 0 whatever BlockNews stay stored, and a rejected or
\* already stored BlockNew does not count.
C21_DueIffNewBlockNews ==
  ~Panicked => (AtCheckpoint <=> new_block_news >= checkpoint_period)

\* C21 witness: after a garbage_collect, at_checkpoint is true with exactly
\* checkpoint_period new BlockNews while the store holds more BlockNews than
\* that.
C21_Witness ==
  /\ latest_stable_checkpoint # <<>>
  /\ checkpoint_period > 0
  /\ AtCheckpoint
  /\ new_block_news = checkpoint_period
  /\ Cardinality({m \in messages : m.msg_type = "BlockNew"}) > new_block_news

\* C22 as stated: once check_prepared(info, f) (check_committable(info, f)) has
\* returned true, it returns true again after any further add_message calls,
\* until a garbage_collect occurs.  Step by step: when the check can return
\* true before an add_message (with or without hint), it returns true after
\* it, whichever messages get_one_msg returns.
C22_TrueStaysTrue ==
  [][(IsAddMessage' \/ IsAddMessageWithHint') =>
       \A info \in QuorumInfos, f \in 0 .. MaxF :
          /\ (\E bn \in GetOneMsg(info, "BlockNew"),
                 pp \in GetOneMsg(info, "PrePrepare") :
                 CheckPreparedOf(bn, pp, f) = Ok(TRUE)) =>
               (\A bn \in GetOneMsg(info, "BlockNew")',
                   pp \in GetOneMsg(info, "PrePrepare")' :
                   CheckPreparedOf(bn, pp, f)' = Ok(TRUE))
          /\ (\E bn \in GetOneMsg(info, "BlockNew"),
                 pp \in GetOneMsg(info, "PrePrepare") :
                 CheckCommittableOf(bn, pp, f) = Ok(TRUE)) =>
               (\A bn \in GetOneMsg(info, "BlockNew")',
                   pp \in GetOneMsg(info, "PrePrepare")' :
                   CheckCommittableOf(bn, pp, f)' = Ok(TRUE))]_vars

=============================================================================
